---- MODULE Spec2Model ----
(***************************************************************************)
(* ORBIT orchestration core.                                               *)
(*                                                                         *)
(*   DatabaseTool (orbit_tools.py): _execute, the retrying executor, and   *)
(*   execute_transaction, the transaction coordinator built on it.         *)
(*   ORBITProcessor (test_process_order.py): the order workflow that       *)
(*   claims an order, processes its images and completes it.               *)
(*   ORBITAgent (orbit_agent.py): health_check, the health aggregator, and *)
(*   execute_workflow, the orchestrator's run.                             *)
(*   ProgressTrackerTool (orbit_tools.py): the progress ledger.            *)
(*                                                                         *)
(* Every remote call (an await on the HTTP client) is one step; the code   *)
(* between two awaits runs with the step that precedes it.  Wall-clock     *)
(* values (timestamps, durations, uuids) are not modelled.                 *)
(***************************************************************************)
EXTENDS Integers, Sequences, FiniteSets, TLC

VARIABLES
    max_retries,  \* DatabaseTool.max_retries
    mode,         \* which DatabaseTool entry point is running: idle, exec, txn
    ex,           \* the frame of the running _execute call
    tx,           \* the frame of the running execute_transaction call
    calls,        \* the _execute calls made since the entry point was called
    sent,         \* the remote invocations (client.post) since then
    sleeps,       \* the asyncio.sleep calls since then
    last_resp,    \* the store's response to the latest remote invocation
    stage,        \* orders.processing_stage, by order
    analysis,     \* images.analysis_status, by order and image
    runs,         \* the frame of each ORBITProcessor.process_order run
    cfg,          \* ORBITAgent.config: mock_mode and which endpoints are set
    agent,        \* ORBITAgent's attributes: stats, context, is_healthy
    wf,           \* the frame of the running health_check / execute_workflow
    tracker,      \* the ProgressTrackerTool of the agent
    other,        \* the frame of a second execute_workflow call, suspended
    ledger,       \* the latest ProgressTrackerTool._execute call and its result
    engine        \* a walk along WORKFLOW_PHASES: the phase and step reached

dbVars == <<max_retries, mode, ex, tx, calls, sent, sleeps, last_resp>>
orderVars == <<stage, analysis, runs>>
agentVars == <<cfg, agent, wf, tracker, other, ledger, engine>>
vars == <<max_retries, mode, ex, tx, calls, sent, sleeps, last_resp,
          stage, analysis, runs, cfg, agent, wf, tracker, other, ledger,
          engine>>

\* ------------------------------------------------------------------ bounds

MaxRetries == 3
MaxSteps == 2

\* --------------------------------------------------------------- envelopes

\* Python's None.
None == "<None>"

\* str(x) for the values kept in last_error.
Str(x) == IF x = None THEN "None" ELSE x

\* ToolResult.__init__: error and data default to None, metadata to {}.
ToolResult(success, data, error, metadata) ==
    [success |-> success, data |-> data, error |-> error, metadata |-> metadata]

\* ToolResult.to_dict: the envelope's fields, copied into a dict.
ToDict(r) ==
    [success |-> r.success, data |-> r.data, error |-> r.error,
     metadata |-> r.metadata]

NoResult == ToolResult(FALSE, None, None, [attempts |-> 0])

\* ------------------------------------------------------------ the store

\* What one POST to rpc/execute_sql can come back with: a 200, a 4xx, a 5xx,
\* or a transport fault (httpx raises): a timeout whose message names it, or
\* a fault whose message is empty.
Responses == {"r200", "r400", "r500", "timeout", "fault"}

Queries == {"qA", "qB"}

\* response.json() of a 200: the rows of the query.
Rows(query) == "rows:" \o query

\* The exception _execute catches for a response that is not a 200.
RaisedError(resp) ==
    CASE resp = "r400" -> "Database error: 400"
      [] resp = "r500" -> "Database error: 500"
      [] resp = "timeout" -> "ReadTimeout"
      [] OTHER -> ""

\* ------------------------------------------------------ DatabaseTool._execute

\* Mutant: the loop bound ignores retry_on_error.
LoopLimitIgnoringFlag(retry_on_error) == max_retries

\* while attempts < (self.max_retries if retry_on_error else 1)
LoopLimit(retry_on_error) == IF retry_on_error THEN max_retries ELSE 1

\* Mutant: back off after every failure, the last one too.
ShouldSleepAfterLast(attempts, retry_on_error) == retry_on_error

\* if attempts < self.max_retries and retry_on_error
ShouldSleep(attempts, retry_on_error) == attempts < max_retries /\ retry_on_error

\* await asyncio.sleep(2 ** attempts)
Backoff(attempts) == 2 ^ attempts

\* Mutant: the success reports the failures counted, not the attempts made.
SuccessAttemptsStale(attempts) == attempts

\* metadata "attempts" of a success: attempts + 1
SuccessAttempts(attempts) == attempts + 1

\* last_error = error
RecordError(last_error, raised) == raised

\* The failure envelope after the loop.
FailureResult(attempts, last_error, operation_type) ==
    ToolResult(FALSE, None, Str(last_error),
               [attempts |-> attempts, operation_type |-> operation_type])

NoFrame ==
    [query |-> None, retry_on_error |-> FALSE, operation_type |-> None,
     attempts |-> 0, last_error |-> None, pc |-> "none", ret |-> NoResult]

\* Entry of _execute: attempts = 0, last_error = None.
NewFrame(query, retry_on_error, operation_type) ==
    [query |-> query, retry_on_error |-> retry_on_error,
     operation_type |-> operation_type,
     attempts |-> 0, last_error |-> None, pc |-> "run", ret |-> NoResult]

NewCall(query, retry_on_error, operation_type) ==
    [query |-> query, retry_on_error |-> retry_on_error,
     operation_type |-> operation_type]

\* One iteration of the while loop: the POST, then either the success return
\* or the except branch (record the error, count the attempt, back off).
ExecAttempt(resp) ==
    /\ mode \in {"exec", "txn"}
    /\ ex.pc = "run"
    /\ ex.attempts < LoopLimit(ex.retry_on_error)
    /\ sent' = Append(sent, [query |-> ex.query, ok |-> resp = "r200",
                             call |-> Len(calls)])
    /\ last_resp' = resp
    /\ IF resp = "r200"
       THEN /\ ex' = [ex EXCEPT
                  !.pc = "ret",
                  !.ret = ToolResult(TRUE, Rows(ex.query), None,
                              [attempts |-> SuccessAttempts(ex.attempts),
                               operation_type |-> ex.operation_type])]
            /\ UNCHANGED sleeps
       ELSE LET attempts == ex.attempts + 1 IN
            /\ ex' = [ex EXCEPT
                  !.last_error = RecordError(ex.last_error, RaisedError(resp)),
                  !.attempts = attempts]
            /\ sleeps' = IF ShouldSleep(attempts, ex.retry_on_error)
                         THEN Append(sleeps, [seconds |-> Backoff(attempts),
                                              after |-> Len(sent')])
                         ELSE sleeps
    /\ UNCHANGED <<max_retries, mode, tx, calls>>

\* The loop condition is false: return the failure envelope.
ExecExhausted ==
    /\ mode \in {"exec", "txn"}
    /\ ex.pc = "run"
    /\ ~(ex.attempts < LoopLimit(ex.retry_on_error))
    /\ ex' = [ex EXCEPT
           !.pc = "ret",
           !.ret = FailureResult(ex.attempts, ex.last_error, ex.operation_type)]
    /\ UNCHANGED <<max_retries, mode, tx, calls, sent, sleeps, last_resp>>

\* No entry point is running.
DbQuiescent ==
    \/ mode = "idle"
    \/ mode = "exec" /\ ex.pc = "ret"
    \/ mode = "txn" /\ tx.pc = "done"

NoTx ==
    [queries |-> <<>>, i |-> 0, results |-> <<>>, pc |-> "none",
     failed |-> None, ret |-> NoResult]

\* A caller invokes the tool: _execute(query, retry_on_error=...).
CallExecute(query, retry_on_error) ==
    /\ DbQuiescent
    /\ mode' = "exec"
    /\ ex' = NewFrame(query, retry_on_error, "query")
    /\ tx' = NoTx
    /\ calls' = <<NewCall(query, retry_on_error, "query")>>
    /\ sent' = <<>>
    /\ sleeps' = <<>>
    /\ last_resp' = None
    /\ UNCHANGED max_retries

\* ------------------------------------------- DatabaseTool.execute_transaction

\* Mutant: the step calls keep _execute's default retry_on_error=True.
StepRetryDefault == TRUE

\* retry_on_error of the step calls: self._execute(query, params, retry_on_error=False)
StepRetry == FALSE

\* if not result.success
StepFailed(result) == ~result.success

\* Mutant: results.insert(0, result.to_dict())
AppendResultFront(results, result) == <<ToDict(result)>> \o results

\* results.append(result.to_dict())
AppendResult(results, result) == Append(results, ToDict(result))

\* f"Query {i+1} failed: {result.error}", i counting from 0
QueryFailed(i, result) == "Query " \o ToString(i) \o " failed: " \o result.error

\* The success envelope: data=results, queries_executed = len(queries).
TxSuccess(results, queries) ==
    ToolResult(TRUE, results, None, [queries_executed |-> Len(queries)])

\* The except branch's envelope: error=str(error), queries_attempted.
TxFailure(error, queries) ==
    ToolResult(FALSE, None, error, [queries_attempted |-> Len(queries)])

\* tx makes its next _execute call.
StartCall(query, retry_on_error, operation_type) ==
    /\ ex' = NewFrame(query, retry_on_error, operation_type)
    /\ calls' = Append(calls, NewCall(query, retry_on_error, operation_type))

\* The commit call after the for loop.
StartCommit == StartCall("COMMIT", TRUE, "transaction_commit")

\* A caller invokes execute_transaction(queries): up to the BEGIN call.
CallTransaction(queries) ==
    /\ DbQuiescent
    /\ mode' = "txn"
    /\ tx' = [NoTx EXCEPT !.queries = queries, !.pc = "begin"]
    /\ ex' = NewFrame("BEGIN", TRUE, "transaction_begin")
    /\ calls' = <<NewCall("BEGIN", TRUE, "transaction_begin")>>
    /\ sent' = <<>>
    /\ sleeps' = <<>>
    /\ last_resp' = None
    /\ UNCHANGED max_retries

\* BEGIN has returned (its envelope is dropped): results = [], then the first
\* step, or COMMIT when the for loop has nothing to run.
TxAfterBegin ==
    /\ mode = "txn" /\ tx.pc = "begin" /\ ex.pc = "ret"
    /\ IF tx.queries = <<>>
       THEN /\ StartCommit
            /\ tx' = [tx EXCEPT !.results = <<>>, !.pc = "commit"]
       ELSE /\ StartCall(tx.queries[1], StepRetry, "query")
            /\ tx' = [tx EXCEPT !.results = <<>>, !.i = 1, !.pc = "step"]
    /\ UNCHANGED <<max_retries, mode, sent, sleeps, last_resp>>

\* Step i has returned: ROLLBACK on a failure; else keep its result and go on
\* to step i+1, or to COMMIT after the last one.
TxAfterStep ==
    /\ mode = "txn" /\ tx.pc = "step" /\ ex.pc = "ret"
    /\ IF StepFailed(ex.ret)
       THEN /\ StartCall("ROLLBACK", TRUE, "transaction_rollback")
            /\ tx' = [tx EXCEPT !.failed = QueryFailed(tx.i, ex.ret),
                                !.pc = "rollback"]
       ELSE IF tx.i < Len(tx.queries)
       THEN /\ StartCall(tx.queries[tx.i + 1], StepRetry, "query")
            /\ tx' = [tx EXCEPT !.results = AppendResult(tx.results, ex.ret),
                                !.i = tx.i + 1]
       ELSE /\ StartCommit
            /\ tx' = [tx EXCEPT !.results = AppendResult(tx.results, ex.ret),
                                !.pc = "commit"]
    /\ UNCHANGED <<max_retries, mode, sent, sleeps, last_resp>>

\* The ROLLBACK of the failing step has returned: raise Exception(...), which
\* the except branch catches, and which calls ROLLBACK again ("Ensure rollback").
TxAfterRollback ==
    /\ mode = "txn" /\ tx.pc = "rollback" /\ ex.pc = "ret"
    /\ StartCall("ROLLBACK", TRUE, "transaction_rollback")
    /\ tx' = [tx EXCEPT !.pc = "ensure_rollback"]
    /\ UNCHANGED <<max_retries, mode, sent, sleeps, last_resp>>

\* The except branch's ROLLBACK has returned: return the failure envelope.
TxAfterEnsureRollback ==
    /\ mode = "txn" /\ tx.pc = "ensure_rollback" /\ ex.pc = "ret"
    /\ tx' = [tx EXCEPT !.pc = "done", !.ret = TxFailure(tx.failed, tx.queries)]
    /\ UNCHANGED <<max_retries, mode, ex, calls, sent, sleeps, last_resp>>

\* COMMIT has returned (its envelope is dropped): return the success envelope.
TxAfterCommit ==
    /\ mode = "txn" /\ tx.pc = "commit" /\ ex.pc = "ret"
    /\ tx' = [tx EXCEPT !.pc = "done", !.ret = TxSuccess(tx.results, tx.queries)]
    /\ UNCHANGED <<max_retries, mode, ex, calls, sent, sleeps, last_resp>>

\* ------------------------------------------------------------ ORBITProcessor

\* The order process_order is run on, and the concurrent runs.
OrderId == "f01470c2"
NumRuns == 2
MaxImages == 2
Runs == 1..NumRuns

\* What one HTTP request of the processor can come back with: a 200/204, any
\* other status, or a transport fault (httpx raises).
Http == {"ok", "refused", "fault"}

NoRun ==
    [pc |-> "idle", images |-> 0, i |-> 0, claimed |-> FALSE, ret |-> "none"]

\* except Exception as e: ... return False
Raise(run) == [run EXCEPT !.pc = "done", !.ret = "False"]

\* mark_order_processing: the PATCH sets processing_stage on a 200/204,
\* whatever the stage was; the row is selected by id alone.
MarkedStage(current, resp) == IF resp = "ok" THEN "processing" ELSE current

\* complete_order: the PATCH sets processing_stage = completed on a 200/204.
CompletedStage(current, resp) == IF resp = "ok" THEN "completed" ELSE current

\* for i, image in enumerate(images, 1): the next image, or Phase 4.
NextImage(run) ==
    IF run.i < run.images
    THEN [run EXCEPT !.pc = "sign", !.i = run.i + 1]
    ELSE [run EXCEPT !.pc = "complete"]

\* The end of the try block: duration/len(images) divides by the number of
\* images, then return True.
Finish(run) ==
    IF run.images = 0 THEN Raise(run)
    ELSE [run EXCEPT !.pc = "done", !.ret = "True"]

\* process_order(order_id) is called.
StartRun(r) ==
    /\ runs[r].pc \in {"idle", "done"}
    /\ runs' = [runs EXCEPT ![r] = [NoRun EXCEPT !.pc = "get_order"]]
    /\ UNCHANGED <<stage, analysis>>

\* get_order_details, first request: GET orders?id=eq.{order_id}.
GetOrder(r, resp) ==
    /\ runs[r].pc = "get_order"
    /\ runs' = [runs EXCEPT ![r] =
           IF resp = "ok" THEN [@ EXCEPT !.pc = "get_images"] ELSE Raise(@)]
    /\ UNCHANGED <<stage, analysis>>

\* get_order_details, second request: GET images?order_id=eq.{order_id}.
GetImages(r, resp) ==
    /\ runs[r].pc = "get_images"
    /\ runs' = [runs EXCEPT ![r] =
           IF resp = "ok"
           THEN [@ EXCEPT !.pc = "mark", !.images = Len(analysis[OrderId])]
           ELSE Raise(@)]
    /\ UNCHANGED <<stage, analysis>>

\* Phase 2: await self.mark_order_processing(order_id); its return value is
\* dropped, and Phase 3 follows.
MarkOrderProcessing(r, resp) ==
    /\ runs[r].pc = "mark"
    /\ stage' = [stage EXCEPT ![OrderId] = MarkedStage(@, resp)]
    /\ runs' = [runs EXCEPT ![r] =
           IF resp = "fault" THEN Raise(@)
           ELSE NextImage([@ EXCEPT !.claimed = (resp = "ok")])]
    /\ UNCHANGED analysis

\* Phase 3: get_image_signed_url; None on a status that is not 200, and the
\* image is skipped.
GetImageSignedUrl(r, resp) ==
    /\ runs[r].pc = "sign"
    /\ runs' = [runs EXCEPT ![r] =
           CASE resp = "ok" -> [@ EXCEPT !.pc = "store"]
             [] resp = "refused" -> NextImage(@)
             [] OTHER -> Raise(@)]
    /\ UNCHANGED <<stage, analysis>>

\* Phase 3: simulate_ai_analysis (local), then store_analysis_results, whose
\* return value is dropped.
StoreAnalysisResults(r, resp) ==
    /\ runs[r].pc = "store"
    /\ analysis' = [analysis EXCEPT ![OrderId][runs[r].i] =
           IF resp = "ok" THEN "completed" ELSE @]
    /\ runs' = [runs EXCEPT ![r] =
           IF resp = "fault" THEN Raise(@) ELSE NextImage(@)]
    /\ UNCHANGED stage

\* Phase 4: await self.complete_order(order_id); its return value is dropped;
\* then the summary and return True.
CompleteOrder(r, resp) ==
    /\ runs[r].pc = "complete"
    /\ stage' = [stage EXCEPT ![OrderId] = CompletedStage(@, resp)]
    /\ runs' = [runs EXCEPT ![r] =
           IF resp = "fault" THEN Raise(@) ELSE Finish(@)]
    /\ UNCHANGED analysis

\* ---------------------------------------------------------------- ORBITAgent

MaxPending == 2
MaxCalls == 4
MaxRunCalls == 2
MaxCount == 3

\* ExecutionStats(started_at=now): ended_at None, the counters and
\* success_rate 0.  success_rate is kept exact, as <<numerator, denominator>>.
NewStats ==
    [ended_at |-> None, orders_processed |-> 0, images_processed |-> 0,
     errors_encountered |-> 0, success_rate |-> <<0, 1>>]

\* Mutant: the rate is derived whether or not ended_at is set.
UpdateCompletionUnguarded(st) ==
    LET total_operations == st.orders_processed + st.images_processed IN
    IF total_operations > 0
    THEN [st EXCEPT !.success_rate =
              <<(total_operations - st.errors_encountered) * 100,
                total_operations>>]
    ELSE st

\* ExecutionStats.update_completion: the metrics are derived only once
\* ended_at is set; success_rate only when there were operations.
UpdateCompletion(st) ==
    IF st.ended_at = None THEN st
    ELSE LET total_operations == st.orders_processed + st.images_processed IN
         IF total_operations > 0
         THEN [st EXCEPT !.success_rate =
                   <<(total_operations - st.errors_encountered) * 100,
                     total_operations>>]
         ELSE st

\* round(x, 2) of x = r[1] / r[2], in hundredths.
RoundHundredths(r) == (2 * 100 * r[1] + r[2]) \div (2 * r[2])

\* ExecutionStats.to_dict: the counters, ended_at, and the rounded rate.
StatsToDict(st) ==
    [ended_at |-> st.ended_at,
     orders_processed |-> st.orders_processed,
     images_processed |-> st.images_processed,
     errors_encountered |-> st.errors_encountered,
     success_rate_hundredths |-> RoundHundredths(st.success_rate)]

\* WorkflowContext(): the dataclass defaults.
NewContext ==
    [pending_orders_count |-> 0, storage_accessible |-> FALSE,
     error_message |-> None, current_phase |-> "initialization"]

\* ProgressTrackerTool.__init__
NewTracker ==
    [todos |-> <<>>, next_id |-> 1,
     workflow_stats |-> [started_at |-> None, orders_processed |-> 0,
                         images_processed |-> 0, errors |-> 0]]

\* Mutant: the id counter advances by two.
AddTodoSkip(t, content, status) ==
    [t EXCEPT !.todos = Append(@, [id |-> t.next_id, content |-> content,
                                   status |-> status]),
              !.next_id = @ + 2]

\* Mutant: the id counter is not advanced.
AddTodoNoIncrement(t, content, status) ==
    [t EXCEPT !.todos = Append(@, [id |-> t.next_id, content |-> content,
                                   status |-> status])]

\* ProgressTrackerTool._add_todo
AddTodo(t, content, status) ==
    [t EXCEPT !.todos = Append(@, [id |-> t.next_id, content |-> content,
                                   status |-> status]),
              !.next_id = @ + 1]

\* ProgressTrackerTool._update_stats with the three counters of the agent.
UpdateStats(t, st) ==
    [t EXCEPT !.workflow_stats.orders_processed = st.orders_processed,
              !.workflow_stats.images_processed = st.images_processed,
              !.workflow_stats.errors = st.errors_encountered]

\* --- health_check

ComponentNames == <<"database", "storage", "ai_analysis", "metadata_embed">>
Components == {ComponentNames[i] : i \in 1..4}

\* What a probe of a tool can do: return a success envelope, return a failure
\* envelope, or raise.  The mock probes return a success whenever they return.
Outcomes == {"success", "failure", "raise"}
MockOutcomes == {"success", "raise"}

\* health_status as health_check starts: no component recorded yet.
NoHealth ==
    [overall |-> "unknown",
     components |-> [c \in Components |-> "unset"],
     details |-> [c \in Components |-> None],
     error |-> None]

\* "healthy" if result.success else "unhealthy"
HealthyIf(ok) == IF ok THEN "healthy" ELSE "unhealthy"

SetComponent(h, c, status, detail) ==
    [h EXCEPT !.components[c] = status, !.details[c] = detail]

\* list(health_status["components"].values())
ComponentStatuses(h) ==
    SelectSeq([i \in 1..4 |-> h.components[ComponentNames[i]]],
              LAMBDA st : st # "unset")

\* Mutant: any unhealthy component makes the aggregate unhealthy.
OverallStrict(statuses) ==
    IF \A i \in DOMAIN statuses : statuses[i] = "healthy" THEN "healthy"
    ELSE "unhealthy"

\* Mutant: degraded needs more than half of the components healthy.
OverallByMajority(statuses) ==
    LET healthy == {i \in DOMAIN statuses : statuses[i] = "healthy"} IN
    IF Cardinality(healthy) = Len(statuses) THEN "healthy"
    ELSE IF 2 * Cardinality(healthy) > Len(statuses) THEN "degraded"
    ELSE "unhealthy"

\* Determine overall health: all healthy, else any healthy, else unhealthy.
Overall(statuses) ==
    IF \A i \in DOMAIN statuses : statuses[i] = "healthy" THEN "healthy"
    ELSE IF \E i \in DOMAIN statuses : statuses[i] = "healthy" THEN "degraded"
    ELSE "unhealthy"

\* if not self.config.mock_mode and self.config.gemini_endpoint
NeedAiProbe == ~cfg.mock_mode /\ cfg.gemini_endpoint

\* if not self.config.mock_mode and self.config.metadata_endpoint
NeedMetadataProbe == ~cfg.mock_mode /\ cfg.metadata_endpoint

\* --- execute_workflow

\* No brief built: no phase marked current, no phase to start with.
NoPrompt == [current |-> None, start |-> None]

\* build_workflow_prompt(context), as far as the phases go: _build_all_phases
\* marks context.current_phase as CURRENT, and _build_execution_section says
\* "Start with {context.current_phase}" unless there are no pending orders.
WorkflowPrompt(context) ==
    [current |-> context.current_phase,
     start |-> IF context.pending_orders_count = 0 THEN None
               ELSE context.current_phase]

\* An agent result that lists no tool calls.
NoToolCalls == [has_tool_calls |-> FALSE, tool_calls |-> <<>>]

NoRet ==
    [success |-> FALSE, message |-> None, error |-> None,
     stats |-> StatsToDict(NewStats), context |-> NewContext,
     agent_result |-> NoToolCalls]

\* The frame: who was called, where it is, health_check's health_status, the
\* aggregate the gate saw, the probes that raised, how the pending-count
\* query ended, the pending count read, the context this run built, the tool
\* calls of the agent run under way, how the run ended, the steps taken so
\* far, and the value returned; also the current_phase the agent's context
\* had when execute_workflow was called, and the brief given to the agent.
NoWf ==
    [caller |-> "none", pc |-> "idle", health |-> NoHealth, gate |-> None,
     raised |-> {}, count_outcome |-> None, pending |-> 0,
     built |-> NewContext, tool_calls |-> <<>>,
     agent_outcome |-> None, log |-> <<>>, ret |-> NoRet,
     entry_phase |-> None, prompt |-> NoPrompt]

Logged(w, step) == [w EXCEPT !.log = Append(@, step)]

\* Mutant: the failure path leaves ended_at unset.
FinalizeFailureNoEnd(st) ==
    UpdateCompletion([st EXCEPT !.errors_encountered = @ + 1])

\* Mutant: the failure path does not count the error.
FinalizeFailureNoCount(st) ==
    UpdateCompletion([st EXCEPT !.ended_at = "set"])

\* The except branch's stats: ended_at = now, errors_encountered += 1,
\* update_completion().
FinalizeFailure(st) ==
    UpdateCompletion([st EXCEPT !.ended_at = "set",
                                !.errors_encountered = @ + 1])

\* except Exception as error: ... return {"success": False, ...}
Fail(w, a, error) ==
    LET st == FinalizeFailure(a.stats) IN
    [wf |-> [w EXCEPT !.pc = "done", !.health = NoHealth,
                      !.ret = [NoRet EXCEPT !.error = error,
                                            !.stats = StatsToDict(st),
                                            !.context = a.context]],
     agent |-> [a EXCEPT !.stats = st]]

\* Mutant: a degraded system is refused as well.
GateFailsUnlessHealthy(overall) == overall # "healthy"

\* if health_status["overall"] == "unhealthy": raise
GateFails(overall) == overall = "unhealthy"

\* health_check returns h: its caller has the health_status, or, inside
\* execute_workflow, the gate follows; health_status is not read after it.
HealthReturn(w, a, h) ==
    LET a2 == [a EXCEPT !.is_healthy = (h.overall = "healthy")] IN
    IF w.caller = "health_check"
    THEN [wf |-> [w EXCEPT !.pc = "done", !.health = h], agent |-> a2]
    ELSE IF GateFails(h.overall)
    THEN Fail([w EXCEPT !.gate = h.overall], a2, "System health check failed")
    ELSE [wf |-> [w EXCEPT !.pc = "c_count", !.gate = h.overall,
                           !.health = NoHealth],
          agent |-> a2]

\* The outer except of health_check: overall unhealthy, the error kept.
HealthEscaped(w, a, h, error) ==
    HealthReturn(w, a, [h EXCEPT !.overall = "unhealthy", !.error = error])

\* All four components are recorded: the aggregate, and return.
HealthAggregate(w, a, h) ==
    HealthReturn(w, a, [h EXCEPT !.overall = Overall(ComponentStatuses(h))])

\* The metadata check: probe it, or record it healthy without a probe.
ToMetadataCheck(w, a, h) ==
    IF NeedMetadataProbe
    THEN [wf |-> [w EXCEPT !.pc = "h_meta", !.health = h], agent |-> a]
    ELSE HealthAggregate(w, a, SetComponent(h, "metadata_embed", "healthy", None))

\* The AI check: probe it, or record it healthy without a probe.
ToAiCheck(w, a, h) ==
    IF NeedAiProbe
    THEN [wf |-> [w EXCEPT !.pc = "h_ai", !.health = h], agent |-> a]
    ELSE ToMetadataCheck(w, a, SetComponent(h, "ai_analysis", "healthy", None))

Step(next) ==
    /\ wf' = next.wf
    /\ agent' = next.agent

\* health_check() is called on its own.
CallHealthCheck ==
    /\ wf.pc = "idle"
    /\ wf' = [NoWf EXCEPT !.caller = "health_check", !.pc = "h_db"]
    /\ UNCHANGED <<cfg, agent, tracker>>

\* execute_workflow() is called: fresh stats, then health_check.
CallExecuteWorkflow ==
    /\ wf.pc = "idle"
    /\ wf' = [NoWf EXCEPT !.caller = "execute_workflow", !.pc = "h_db",
                          !.entry_phase = agent.context.current_phase]
    /\ agent' = [agent EXCEPT !.stats = NewStats]
    /\ UNCHANGED <<cfg, tracker>>

\* await self.tools['database']._execute("SELECT 1 as health_check")
ProbeDatabase(out) ==
    /\ wf.pc = "h_db"
    /\ LET w == Logged(wf, "health:database") IN
       IF out = "raise"
       THEN Step(HealthEscaped([w EXCEPT !.raised = @ \cup {"database"}],
                               agent, w.health, "database probe fault"))
       ELSE Step([wf |-> [w EXCEPT
                     !.pc = "h_storage",
                     !.health = SetComponent(w.health, "database",
                         HealthyIf(out = "success"),
                         IF out = "success" THEN "Connected"
                         ELSE "database error")],
                  agent |-> agent])
    /\ UNCHANGED <<cfg, tracker>>

\* await self.tools['storage']._execute("list_files", ...), then the AI check.
ProbeStorage(out) ==
    /\ wf.pc = "h_storage"
    /\ LET w == Logged(wf, "health:storage") IN
       IF out = "raise"
       THEN Step(HealthEscaped([w EXCEPT !.raised = @ \cup {"storage"}],
                               agent, w.health, "storage probe fault"))
       ELSE Step(ToAiCheck(w, agent,
                     SetComponent(w.health, "storage",
                         HealthyIf(out = "success"),
                         IF out = "success" THEN "Accessible"
                         ELSE "storage error")))
    /\ UNCHANGED <<cfg, tracker>>

\* await self.tools['ai_analysis']._mock_analysis(...), in its own try.
ProbeAi(out) ==
    /\ wf.pc = "h_ai"
    /\ LET w == Logged(wf, "health:ai_analysis") IN
       IF out = "raise"
       THEN Step(ToMetadataCheck([w EXCEPT !.raised = @ \cup {"ai_analysis"}],
                     agent,
                     SetComponent(w.health, "ai_analysis", "unhealthy",
                                  "ai probe fault")))
       ELSE Step(ToMetadataCheck(w, agent,
                     SetComponent(w.health, "ai_analysis", "healthy", None)))
    /\ UNCHANGED <<cfg, tracker>>

\* await self.tools['metadata_embed']._mock_embed(...), in its own try.
ProbeMetadata(out) ==
    /\ wf.pc = "h_meta"
    /\ LET w == Logged(wf, "health:metadata_embed") IN
       IF out = "raise"
       THEN Step(HealthAggregate([w EXCEPT !.raised = @ \cup {"metadata_embed"}],
                     agent,
                     SetComponent(w.health, "metadata_embed", "unhealthy",
                                  "metadata probe fault")))
       ELSE Step(HealthAggregate(w, agent,
                     SetComponent(w.health, "metadata_embed", "healthy", None)))
    /\ UNCHANGED <<cfg, tracker>>

\* --- prepare_workflow_context and the run

\* Between runs a caller leaves a phase in the agent's context:
\* agent.context.current_phase = phase (WorkflowContext is a plain dataclass;
\* get_processing_prompt assigns the field on the context it is given).
SetCurrentPhase(phase) ==
    /\ wf.pc \in {"idle", "done"}
    /\ agent.context.current_phase # phase
    /\ agent' = [agent EXCEPT !.context.current_phase = phase]
    /\ UNCHANGED <<cfg, wf, tracker>>

\* The context prepare_workflow_context builds when both reads returned.
PreparedContext(pending_count, storage_accessible) ==
    [NewContext EXCEPT !.pending_orders_count = pending_count,
                       !.storage_accessible = storage_accessible]

\* The context its except branch builds.
ErrorContext(error) ==
    [NewContext EXCEPT !.error_message = error]

\* Mutant: only a negative count means there is no work.
NoWorkIfNegative(context) == context.pending_orders_count < 0

\* if context.pending_orders_count == 0: return "No pending orders to process"
NoWork(context) == context.pending_orders_count = 0

NoWorkResult(a) ==
    [NoRet EXCEPT !.success = TRUE,
                  !.message = "No pending orders to process",
                  !.stats = StatsToDict(a.stats),
                  !.context = a.context]

\* Mutant: the agent is started without the todo.
AfterContextNoTodo(w, a) ==
    IF NoWork(a.context)
    THEN /\ wf' = [w EXCEPT !.pc = "done", !.ret = NoWorkResult(a)]
         /\ agent' = a
         /\ tracker' = tracker
    ELSE /\ wf' = [w EXCEPT !.pc = "agent",
                            !.prompt = WorkflowPrompt(a.context)]
         /\ agent' = a
         /\ tracker' = tracker

\* The context is prepared: return when there is no work, else add the todo,
\* build the prompt and start the agent.
AfterContext(w, a) ==
    IF NoWork(a.context)
    THEN /\ wf' = [w EXCEPT !.pc = "done", !.built = a.context,
                            !.ret = NoWorkResult(a)]
         /\ agent' = a
         /\ tracker' = tracker
    ELSE /\ wf' = [Logged(w, "add_todo") EXCEPT
                       !.pc = "agent",
                       !.built = a.context,
                       !.prompt = WorkflowPrompt(a.context)]
         /\ agent' = a
         /\ tracker' = AddTodo(tracker,
                <<"Process", a.context.pending_orders_count, "pending orders">>,
                "in_progress")

\* db_result = await self.tools['database']._execute(pending_query); a raise
\* goes to the except branch of prepare_workflow_context.
CountPending(out, count) ==
    /\ wf.pc = "c_count"
    /\ out # "success" => count = 0
    /\ LET w == [Logged(wf, "count_pending") EXCEPT !.count_outcome = out] IN
       IF out = "raise"
       THEN AfterContext(w, [agent EXCEPT
                !.context = ErrorContext("count query fault")])
       ELSE /\ wf' = [w EXCEPT !.pc = "c_storage", !.pending = count]
            /\ UNCHANGED <<agent, tracker>>
    /\ UNCHANGED cfg

\* storage_result = await self.tools['storage']._execute("list_files", ...),
\* the context, and the code up to the agent's start.
ContextStorage(out) ==
    /\ wf.pc = "c_storage"
    /\ LET w == [Logged(wf, "storage_probe") EXCEPT !.pending = 0] IN
       IF out = "raise"
       THEN AfterContext(w, [agent EXCEPT
                !.context = ErrorContext("storage probe fault")])
       ELSE AfterContext(w, [agent EXCEPT
                !.context = PreparedContext(wf.pending, out = "success")])
    /\ UNCHANGED cfg

\* Sequences over S of length at most n.
SeqsUpTo(S, n) == UNION {[1..k -> S] : k \in 0..n}

\* The tool calls an agent result can list: the tool, what its arguments
\* hold, and whether the call's result reports success.
ClaimOrder == "UPDATE orders SET processing_stage = 'processing'"
CompleteOrderSql == "UPDATE orders SET processing_stage = 'completed'"
CompleteImage == "UPDATE images SET processing_status = 'completed'"
ToolCalls ==
    [tool_name : {"database_query"},
     arguments : {ClaimOrder, CompleteOrderSql, CompleteImage},
     success : BOOLEAN]
    \cup [tool_name : {"storage_download"}, arguments : {"path"},
          success : BOOLEAN]

\* 'UPDATE orders SET processing_stage' in str(call.arguments)
IsOrderStageUpdate(arguments) == arguments \in {ClaimOrder, CompleteOrderSql}

\* 'UPDATE images SET processing_status' in str(call.arguments)
IsImageStatusUpdate(arguments) == arguments = CompleteImage

\* One turn of the loop over result.tool_calls.
CountCall(st, call) ==
    LET counted ==
            IF call.tool_name # "database_query" THEN st
            ELSE IF IsOrderStageUpdate(call.arguments)
            THEN [st EXCEPT !.orders_processed = @ + 1]
            ELSE IF IsImageStatusUpdate(call.arguments)
            THEN [st EXCEPT !.images_processed = @ + 1]
            ELSE st
    IN IF ~call.success
       THEN [counted EXCEPT !.errors_encountered = @ + 1]
       ELSE counted

RECURSIVE CountToolCalls(_, _)
CountToolCalls(st, tool_calls) ==
    IF tool_calls = <<>> THEN st
    ELSE CountToolCalls(CountCall(st, Head(tool_calls)), Tail(tool_calls))

\* What agent.run can return: a result with tool_calls, or one without the
\* attribute.
AgentResults ==
    [has_tool_calls : {TRUE}, tool_calls : SeqsUpTo(ToolCalls, MaxRunCalls)]
    \cup {NoToolCalls}

\* How the awaited agent run can end: a result, the timeout, or a raise.
AgentOutcomes ==
    [kind : {"result"}, result : AgentResults]
    \cup [kind : {"timeout", "raise"}, result : {NoToolCalls}]

\* _process_agent_result's effect on the stats.
ProcessAgentResult(st, result) ==
    IF result.has_tool_calls THEN CountToolCalls(st, result.tool_calls)
    ELSE st

\* The agent returned a result: it is processed, the tracker updated, the
\* stats finalized and the success result returned.
Completed(w, result) ==
    LET counted == ProcessAgentResult(agent.stats, result)
        st == UpdateCompletion([counted EXCEPT !.ended_at = "set"])
    IN /\ agent' = [agent EXCEPT !.stats = st]
       /\ tracker' = UpdateStats(tracker, counted)
       /\ wf' = [Logged(Logged(w, "process_result"), "update_stats")
                   EXCEPT !.pc = "done",
                          !.agent_outcome = "result",
                          !.ret = [NoRet EXCEPT
                              !.success = TRUE,
                              !.message = "Workflow completed successfully",
                              !.stats = StatsToDict(st),
                              !.context = agent.context,
                              !.agent_result = result]]

\* result = await asyncio.wait_for(self.agent.run(prompt), timeout) and all
\* that follows it: a result is processed, the tracker updated and the stats
\* finalized; a timeout or a raise goes to the except branch.
AgentRun(out) ==
    /\ wf.pc = "agent"
    /\ LET w == Logged(wf, "agent_run") IN
       IF out.kind \in {"timeout", "raise"}
       THEN /\ Step(Fail([w EXCEPT !.agent_outcome = out.kind], agent,
                         IF out.kind = "timeout" THEN "Workflow timed out"
                         ELSE "agent fault"))
            /\ tracker' = tracker
       ELSE Completed(w, out.result)
    /\ UNCHANGED cfg

\* The running agent calls a tool; the call joins its result's tool_calls.
AgentToolCall(call) ==
    /\ wf.pc = "idle"
    /\ Len(wf.tool_calls) < MaxCalls
    /\ wf' = [wf EXCEPT !.tool_calls = Append(@, call)]
    /\ UNCHANGED <<cfg, agent, tracker>>

\* The part of the run that follows the agent's return, from a fresh agent:
\* _process_agent_result(result), ended_at, update_completion.  The result
\* lists the calls made, or has no tool_calls attribute.
ProcessResult(has_tool_calls) ==
    /\ wf.pc = "idle"
    /\ has_tool_calls \/ wf.tool_calls = <<>>
    /\ Completed([wf EXCEPT !.caller = "process_agent_result",
                            !.tool_calls = <<>>],
                 IF has_tool_calls
                 THEN [has_tool_calls |-> TRUE, tool_calls |-> wf.tool_calls]
                 ELSE NoToolCalls)
    /\ UNCHANGED cfg

\* --- ProgressTrackerTool

MaxTodos == 3

Statuses == {"pending", "in_progress", "completed"}

\* The result fields _execute's envelopes carry, by action.
NoLedgerRet ==
    [success |-> FALSE, error |-> None, todo_id |-> 0, todo_status |-> None,
     total_todos |-> 0, completed |-> 0, in_progress |-> 0, pending |-> 0,
     percent_complete_hundredths |-> 0,
     workflow_stats |-> NewTracker.workflow_stats]

\* No call made yet.  issued: the ids add_todo returned, with their callers,
\* since construction or the last reset.  cleared: how many todos the reset
\* just made removed, while only get_progress calls have followed it.
NoCall == [op |-> "none", ret |-> NoLedgerRet, issued |-> <<>>, cleared |-> 0]

\* next((t for t in self.todos if t["id"] == todo_id), None)
FindTodo(t, todo_id) ==
    LET hits == {k \in DOMAIN t.todos : t.todos[k].id = todo_id} IN
    IF hits = {} THEN 0
    ELSE CHOOSE k \in hits : \A j \in hits : k <= j

\* Mutant: every todo takes the status.
UpdateTodoAll(t, k, status) ==
    [t EXCEPT !.todos = [j \in DOMAIN t.todos |->
                             [t.todos[j] EXCEPT !.status = status]]]

\* Mutant: the todo is recreated with the status as its content.
UpdateTodoRewrite(t, k, status) ==
    [t EXCEPT !.todos[k] = [id |-> @.id, content |-> status,
                            status |-> status]]

\* todo["status"] = status, on the todo found.
UpdateTodo(t, k, status) ==
    [t EXCEPT !.todos[k].status = status]

\* ProgressTrackerTool._get_status_counts, for one status.
StatusCount(t, status) ==
    Cardinality({k \in DOMAIN t.todos : t.todos[k].status = status})

\* Mutant: todos in progress count as half done.
PercentCompleteHalves(t) ==
    LET total == Len(t.todos) IN
    IF total > 0
    THEN RoundHundredths(<<(2 * StatusCount(t, "completed")
                            + StatusCount(t, "in_progress")) * 100,
                           2 * total>>)
    ELSE 0

\* round(completed / total * 100, 2) if total > 0 else 0, in hundredths.
PercentComplete(t) ==
    LET total == Len(t.todos) IN
    IF total > 0
    THEN RoundHundredths(<<StatusCount(t, "completed") * 100, total>>)
    ELSE 0

\* ProgressTrackerTool._get_progress
GetProgress(t) ==
    [NoLedgerRet EXCEPT !.success = TRUE,
                        !.total_todos = Len(t.todos),
                        !.completed = StatusCount(t, "completed"),
                        !.in_progress = StatusCount(t, "in_progress"),
                        !.pending = StatusCount(t, "pending"),
                        !.percent_complete_hundredths = PercentComplete(t),
                        !.workflow_stats = t.workflow_stats]

\* The stat_update dictionaries callers pass: the keys present and their
\* values.
StatKeys == {"started_at", "orders_processed", "images_processed", "errors"}
StatUpdates ==
    {[has |-> {}, vals |-> NewTracker.workflow_stats],
     [has |-> {"orders_processed"},
      vals |-> [NewTracker.workflow_stats EXCEPT !.orders_processed = 1]],
     [has |-> {"started_at"}, vals |-> NewTracker.workflow_stats],
     [has |-> {"started_at"},
      vals |-> [NewTracker.workflow_stats EXCEPT !.started_at = "t0"]]}

\* self.workflow_stats.update(updates); started_at = now when the update
\* names started_at and the merged value is unset.
MergeStats(t, updates) ==
    LET ws == t.workflow_stats
        Pick(k) == IF k \in updates.has THEN updates.vals[k] ELSE ws[k]
        merged == [started_at |-> Pick("started_at"),
                   orders_processed |-> Pick("orders_processed"),
                   images_processed |-> Pick("images_processed"),
                   errors |-> Pick("errors")]
    IN [t EXCEPT !.workflow_stats =
           IF "started_at" \in updates.has /\ merged.started_at \in {None, ""}
           THEN [merged EXCEPT !.started_at = "now"]
           ELSE merged]

\* Mutant: reset keeps the counters.
ResetTodosOnly(t) == [NewTracker EXCEPT !.workflow_stats = t.workflow_stats]

\* ProgressTrackerTool._reset
Reset(t) == NewTracker

\* _execute("add_todo", content, status): status or "pending".
CallAddTodo(caller, content, status) ==
    /\ Len(tracker.todos) < MaxTodos
    /\ LET t == AddTodo(tracker, content,
                        IF status = None THEN "pending" ELSE status)
           todo == t.todos[Len(t.todos)]
       IN /\ tracker' = t
          /\ ledger' = [op |-> "add_todo",
                        ret |-> [NoLedgerRet EXCEPT
                                    !.success = TRUE,
                                    !.todo_id = todo.id,
                                    !.todo_status = todo.status,
                                    !.total_todos = Len(t.todos)],
                        issued |-> Append(ledger.issued,
                                      [caller |-> caller, id |-> todo.id]),
                        cleared |-> 0]

\* _execute("update_todo", todo_id, status); status is None when the caller
\* leaves it out, and is stored as given.
CallUpdateTodo(todo_id, status) ==
    LET k == FindTodo(tracker, todo_id) IN
    IF k = 0
    THEN /\ tracker' = tracker
         /\ ledger' = [ledger EXCEPT
                !.op = "update_todo", !.cleared = 0,
                !.ret = [NoLedgerRet EXCEPT !.error = "Todo not found",
                                            !.todo_id = todo_id]]
    ELSE LET t == UpdateTodo(tracker, k, status) IN
         /\ tracker' = t
         /\ ledger' = [ledger EXCEPT
                !.op = "update_todo", !.cleared = 0,
                !.ret = [NoLedgerRet EXCEPT
                            !.success = TRUE,
                            !.todo_id = t.todos[k].id,
                            !.todo_status = t.todos[k].status,
                            !.total_todos = Len(t.todos)]]

\* _execute("list_todos")
CallListTodos ==
    /\ tracker' = tracker
    /\ ledger' = [ledger EXCEPT
           !.op = "list_todos", !.cleared = 0,
           !.ret = [NoLedgerRet EXCEPT !.success = TRUE,
                                       !.total_todos = Len(tracker.todos)]]

\* _execute("get_progress")
CallGetProgress ==
    /\ tracker' = tracker
    /\ ledger' = [ledger EXCEPT !.op = "get_progress",
                                !.ret = GetProgress(tracker)]

\* _execute("update_stats", stat_update=updates)
CallUpdateStats(updates) ==
    LET t == MergeStats(tracker, updates) IN
    /\ tracker' = t
    /\ ledger' = [ledger EXCEPT
           !.op = "update_stats", !.cleared = 0,
           !.ret = [NoLedgerRet EXCEPT !.success = TRUE,
                                       !.workflow_stats = t.workflow_stats]]

\* _execute("reset")
CallReset ==
    /\ tracker' = Reset(tracker)
    /\ ledger' = [op |-> "reset",
                  ret |-> [NoLedgerRet EXCEPT !.success = TRUE],
                  issued |-> <<>>,
                  cleared |-> Len(tracker.todos)]

\* _execute with an action it does not know.
CallUnknown ==
    /\ tracker' = tracker
    /\ ledger' = [ledger EXCEPT
           !.op = "unknown", !.cleared = 0,
           !.ret = [NoLedgerRet EXCEPT !.error = "Unknown action"]]

\* The agent as constructed: no call running.
\* --- ORBITPromptBuilder.WORKFLOW_PHASES

\* The keys of WORKFLOW_PHASES, in the order of the dict.
PhaseNames ==
    <<"initialization", "order_discovery", "image_processing", "finalization",
      "continuation">>
Phases == {PhaseNames[i] : i \in DOMAIN PhaseNames}

\* Mutant: finalization hands back to order_discovery.
NextPhaseLooping(phase) ==
    CASE phase = "initialization" -> "order_discovery"
      [] phase = "order_discovery" -> "image_processing"
      [] phase = "image_processing" -> "finalization"
      [] phase = "finalization" -> "order_discovery"
      [] OTHER -> None

\* WORKFLOW_PHASES[phase]["next_phase"]
NextPhase(phase) ==
    CASE phase = "initialization" -> "order_discovery"
      [] phase = "order_discovery" -> "image_processing"
      [] phase = "image_processing" -> "finalization"
      [] phase = "finalization" -> "continuation"
      [] OTHER -> None

\* len(WORKFLOW_PHASES[phase]["steps"])
StepCount(phase) ==
    CASE phase = "initialization" -> 5
      [] phase = "order_discovery" -> 6
      [] phase = "image_processing" -> 8
      [] phase = "finalization" -> 6
      [] OTHER -> 5

\* No walk under way.
NoEngine ==
    [start |-> None, phase |-> None, step |-> 0, visited |-> <<>>,
     pending |-> 0]

\* A walk starts at a phase, with the pending count of the context.
StartWalk(phase, pending) ==
    [start |-> phase, phase |-> phase, step |-> 0, visited |-> <<phase>>,
     pending |-> pending]

\* for i, step in enumerate(phase['steps'], 1): the next step of the phase.
NextStep ==
    /\ engine.phase # None
    /\ engine.step < StepCount(engine.phase)
    /\ engine' = [engine EXCEPT !.step = @ + 1]

\* The phase's steps are done: on to phase['next_phase'], or the workflow is
\* complete when it is None.  The last step of continuation is preceded by
\* its check for additional pending orders, which reads the count again.
FollowNextPhase(count) ==
    /\ engine.phase # None
    /\ engine.step = StepCount(engine.phase)
    /\ engine.phase # "continuation" => count = engine.pending
    /\ LET next == NextPhase(engine.phase) IN
       engine' = [engine EXCEPT
           !.phase = next,
           !.step = 0,
           !.pending = count,
           !.visited = IF next = None THEN @ ELSE Append(@, next)]

AgentIdle ==
    /\ cfg = [mock_mode |-> TRUE, gemini_endpoint |-> FALSE,
              metadata_endpoint |-> FALSE]
    /\ agent = [stats |-> NewStats, context |-> NewContext,
                is_healthy |-> FALSE]
    /\ wf = NoWf
    /\ tracker = NewTracker
    /\ other = NoWf
    /\ ledger = NoCall
    /\ engine = NoEngine

\* ---------------------------------------------------------- specifications

\* No order workflow is part of the run.
OrderIdle ==
    /\ stage = <<>>
    /\ analysis = <<>>
    /\ runs = <<>>

\* DatabaseTool.__init__: any max_retries the caller passes; nothing running.
DbInit ==
    /\ max_retries \in 0..MaxRetries
    /\ mode = "idle"
    /\ ex = NoFrame
    /\ tx = NoTx
    /\ calls = <<>>
    /\ sent = <<>>
    /\ sleeps = <<>>
    /\ last_resp = None
    /\ OrderIdle
    /\ AgentIdle

\* A step of the DatabaseTool leaves the other components alone.
DbOnly == UNCHANGED <<orderVars, agentVars>>

DbNext ==
    \/ \E q \in Queries, r \in BOOLEAN : CallExecute(q, r) /\ DbOnly
    \/ \E qs \in SeqsUpTo(Queries, MaxSteps) : CallTransaction(qs) /\ DbOnly
    \/ \E resp \in Responses : ExecAttempt(resp) /\ DbOnly
    \/ ExecExhausted /\ DbOnly
    \/ TxAfterBegin /\ DbOnly
    \/ TxAfterStep /\ DbOnly
    \/ TxAfterRollback /\ DbOnly
    \/ TxAfterEnsureRollback /\ DbOnly
    \/ TxAfterCommit /\ DbOnly

SpecDb ==
    /\ DbInit
    /\ [][DbNext]_vars

\* The steps of a caller that only makes _execute calls.
ExecNext ==
    \/ \E q \in Queries, r \in BOOLEAN : CallExecute(q, r) /\ DbOnly
    \/ \E resp \in Responses : ExecAttempt(resp) /\ DbOnly
    \/ ExecExhausted /\ DbOnly

\* Each step of a call runs once its await completes: the event loop resumes
\* a coroutine whose call has returned, and the HTTP client's timeout (30 s)
\* ends every remote call.
SpecDbLive == SpecDb /\ WF_vars(DbNext)

SpecExecLive == DbInit /\ [][ExecNext]_vars /\ WF_vars(ExecNext)

\* No DatabaseTool call is part of the run.
DbIdle ==
    /\ max_retries = 3
    /\ mode = "idle"
    /\ ex = NoFrame
    /\ tx = NoTx
    /\ calls = <<>>
    /\ sent = <<>>
    /\ sleeps = <<>>
    /\ last_resp = None

\* The order exists, pending, with some images still to analyse; no run yet.
OrderInit ==
    /\ stage = [o \in {OrderId} |-> "pending"]
    /\ \E n \in 0..MaxImages :
           analysis = [o \in {OrderId} |-> [k \in 1..n |-> "pending"]]
    /\ runs = [r \in Runs |-> NoRun]
    /\ DbIdle
    /\ AgentIdle

\* A step of the processor leaves the other components alone.
OrderOnly == UNCHANGED <<dbVars, agentVars>>

OrderNext ==
    \/ \E r \in Runs : StartRun(r) /\ OrderOnly
    \/ \E r \in Runs, resp \in Http : GetOrder(r, resp) /\ OrderOnly
    \/ \E r \in Runs, resp \in Http : GetImages(r, resp) /\ OrderOnly
    \/ \E r \in Runs, resp \in Http : MarkOrderProcessing(r, resp) /\ OrderOnly
    \/ \E r \in Runs, resp \in Http : GetImageSignedUrl(r, resp) /\ OrderOnly
    \/ \E r \in Runs, resp \in Http : StoreAnalysisResults(r, resp) /\ OrderOnly
    \/ \E r \in Runs, resp \in Http : CompleteOrder(r, resp) /\ OrderOnly

SpecOrder ==
    /\ OrderInit
    /\ [][OrderNext]_vars

\* ORBITAgent.__init__: any configuration of the mode and the endpoints; fresh
\* stats, context and tracker; nothing running.
AgentInit ==
    /\ cfg \in [mock_mode : BOOLEAN, gemini_endpoint : BOOLEAN,
                metadata_endpoint : BOOLEAN]
    /\ agent = [stats |-> NewStats, context |-> NewContext,
                is_healthy |-> FALSE]
    /\ wf = NoWf
    /\ tracker = NewTracker
    /\ other = NoWf
    /\ ledger = NoCall
    /\ engine = NoEngine
    /\ DbIdle
    /\ OrderIdle

\* A step of the agent leaves the other components alone.
AgentOnly == UNCHANGED <<dbVars, orderVars, other, ledger, engine>>

\* health_check called on its own.
HealthNext ==
    \/ CallHealthCheck /\ AgentOnly
    \/ \E out \in Outcomes : ProbeDatabase(out) /\ AgentOnly
    \/ \E out \in Outcomes : ProbeStorage(out) /\ AgentOnly
    \/ \E out \in MockOutcomes : ProbeAi(out) /\ AgentOnly
    \/ \E out \in MockOutcomes : ProbeMetadata(out) /\ AgentOnly

SpecHealth ==
    /\ AgentInit
    /\ [][HealthNext]_vars

\* One run of execute_workflow.
AgentNext ==
    \/ CallExecuteWorkflow /\ AgentOnly
    \/ \E out \in Outcomes : ProbeDatabase(out) /\ AgentOnly
    \/ \E out \in Outcomes : ProbeStorage(out) /\ AgentOnly
    \/ \E out \in MockOutcomes : ProbeAi(out) /\ AgentOnly
    \/ \E out \in MockOutcomes : ProbeMetadata(out) /\ AgentOnly
    \/ \E out \in Outcomes, count \in 0..MaxPending :
           CountPending(out, count) /\ AgentOnly
    \/ \E out \in Outcomes : ContextStorage(out) /\ AgentOnly
    \/ \E out \in AgentOutcomes : AgentRun(out) /\ AgentOnly

SpecAgent ==
    /\ AgentInit
    /\ [][AgentNext]_vars

\* The statistics of a run, over every result the agent can return.
StatsInit ==
    /\ AgentIdle
    /\ DbIdle
    /\ OrderIdle

StatsNext ==
    \/ \E call \in ToolCalls : AgentToolCall(call) /\ AgentOnly
    \/ \E has_tool_calls \in BOOLEAN : ProcessResult(has_tool_calls) /\ AgentOnly

SpecStats ==
    /\ StatsInit
    /\ [][StatsNext]_vars

\* ExecutionStats.update_completion as a function of the stats it is called
\* on: any counters, ended_at set or not; success_rate is assigned nowhere
\* else, so it still has its default.
CompletionInit ==
    /\ cfg = [mock_mode |-> TRUE, gemini_endpoint |-> FALSE,
              metadata_endpoint |-> FALSE]
    /\ \E e \in {None, "set"}, o \in 0..MaxCount, i \in 0..MaxCount,
          n \in 0..MaxCount :
           agent = [stats |-> [NewStats EXCEPT !.ended_at = e,
                                               !.orders_processed = o,
                                               !.images_processed = i,
                                               !.errors_encountered = n],
                    context |-> NewContext, is_healthy |-> FALSE]
    /\ wf = NoWf
    /\ tracker = NewTracker
    /\ other = NoWf
    /\ ledger = NoCall
    /\ engine = NoEngine
    /\ DbIdle
    /\ OrderIdle

\* self.stats.update_completion()
UpdateCompletionCall ==
    /\ wf.pc = "idle"
    /\ agent' = [agent EXCEPT !.stats = UpdateCompletion(@)]
    /\ wf' = [wf EXCEPT !.caller = "update_completion", !.pc = "done"]
    /\ UNCHANGED <<cfg, tracker>>

CompletionNext == UpdateCompletionCall /\ AgentOnly

SpecCompletion ==
    /\ CompletionInit
    /\ [][CompletionNext]_vars

\* A second execute_workflow call on the same agent while the first is
\* suspended at an await: the event loop runs one coroutine at a time and
\* can change over to the other wherever the running one awaits.
Switch ==
    /\ wf # other
    /\ wf' = other
    /\ other' = wf
    /\ UNCHANGED <<cfg, agent, tracker>>

\* The agent run's outcomes with at most one tool call.
OverlapOutcomes == {out \in AgentOutcomes : Len(out.result.tool_calls) <= 1}

\* Two calls of execute_workflow on one agent in mock mode.
OverlapInit ==
    /\ AgentIdle
    /\ DbIdle
    /\ OrderIdle

OverlapNext ==
    \/ CallExecuteWorkflow /\ AgentOnly
    \/ \E out \in Outcomes : ProbeDatabase(out) /\ AgentOnly
    \/ \E out \in Outcomes : ProbeStorage(out) /\ AgentOnly
    \/ \E out \in Outcomes, count \in 0..MaxPending :
           CountPending(out, count) /\ AgentOnly
    \/ \E out \in Outcomes : ContextStorage(out) /\ AgentOnly
    \/ \E out \in OverlapOutcomes : AgentRun(out) /\ AgentOnly
    \/ Switch /\ UNCHANGED <<dbVars, orderVars, ledger, engine>>

SpecOverlap ==
    /\ OverlapInit
    /\ [][OverlapNext]_vars

\* The callers that share the tracker.
Callers == {"caller1", "caller2"}

\* ProgressTrackerTool.__init__: empty ledger, no call made.
TrackerInit ==
    /\ AgentIdle
    /\ DbIdle
    /\ OrderIdle

\* A call of the tracker leaves everything else alone.
TrackerOnly == UNCHANGED <<dbVars, orderVars, cfg, agent, wf, other, engine>>

\* No operation of the tracker awaits anything that suspends, so each call
\* of _execute runs from start to end as one step, whoever calls it.
TrackerNext ==
    \/ \E caller \in Callers, status \in Statuses \cup {None} :
           CallAddTodo(caller, "task", status) /\ TrackerOnly
    \/ \E todo_id \in 1..(MaxTodos + 1), status \in Statuses :
           CallUpdateTodo(todo_id, status) /\ TrackerOnly
    \/ CallListTodos /\ TrackerOnly
    \/ CallGetProgress /\ TrackerOnly
    \/ \E updates \in StatUpdates : CallUpdateStats(updates) /\ TrackerOnly
    \/ CallReset /\ TrackerOnly
    \/ CallUnknown /\ TrackerOnly

SpecTracker ==
    /\ TrackerInit
    /\ [][TrackerNext]_vars

\* The ledger under every status a call can carry: SpecTracker draws the
\* statuses from the three the ledger counts; here update_todo's status may
\* also be left out, which stores None.
StatusNext ==
    \/ \E status \in Statuses \cup {None} :
           CallAddTodo("caller1", "task", status) /\ TrackerOnly
    \/ \E todo_id \in 1..(MaxTodos + 1), status \in Statuses \cup {None} :
           CallUpdateTodo(todo_id, status) /\ TrackerOnly
    \/ CallListTodos /\ TrackerOnly
    \/ CallGetProgress /\ TrackerOnly
    \/ CallReset /\ TrackerOnly

SpecStatus ==
    /\ TrackerInit
    /\ [][StatusNext]_vars

\* Runs of execute_workflow on an agent whose context a caller may have left
\* at any phase.
ResumeInit ==
    /\ AgentIdle
    /\ DbIdle
    /\ OrderIdle

ResumeNext ==
    \/ \E phase \in Phases : SetCurrentPhase(phase) /\ AgentOnly
    \/ CallExecuteWorkflow /\ AgentOnly
    \/ \E out \in Outcomes : ProbeDatabase(out) /\ AgentOnly
    \/ \E out \in Outcomes : ProbeStorage(out) /\ AgentOnly
    \/ \E out \in Outcomes, count \in 0..MaxPending :
           CountPending(out, count) /\ AgentOnly
    \/ \E out \in Outcomes : ContextStorage(out) /\ AgentOnly
    \/ \E out \in OverlapOutcomes : AgentRun(out) /\ AgentOnly

SpecResume ==
    /\ ResumeInit
    /\ [][ResumeNext]_vars

\* The phase table, followed from any of its phases, with any pending count.
PhasesInit ==
    /\ cfg = [mock_mode |-> TRUE, gemini_endpoint |-> FALSE,
              metadata_endpoint |-> FALSE]
    /\ agent = [stats |-> NewStats, context |-> NewContext,
                is_healthy |-> FALSE]
    /\ wf = NoWf
    /\ tracker = NewTracker
    /\ other = NoWf
    /\ ledger = NoCall
    /\ \E phase \in Phases, pending \in 0..MaxPending :
           engine = StartWalk(phase, pending)
    /\ DbIdle
    /\ OrderIdle

\* A step of the walk leaves everything else alone.
PhasesOnly ==
    UNCHANGED <<dbVars, orderVars, cfg, agent, wf, tracker, other, ledger>>

PhasesNext ==
    \/ NextStep /\ PhasesOnly
    \/ \E count \in 0..MaxPending : FollowNextPhase(count) /\ PhasesOnly

SpecPhases ==
    /\ PhasesInit
    /\ [][PhasesNext]_vars

\* ------------------------------------------------- DatabaseTool: properties

\* The remote invocations made by the c-th _execute call.
SentOf(c) == {k \in DOMAIN sent : sent[k].call = c}

\* How many _execute calls carried this query.
CountCalls(query) ==
    Cardinality({c \in DOMAIN calls : calls[c].query = query})

\* The queries of the _execute calls, in call order.
CallQueries == [c \in DOMAIN calls |-> calls[c].query]

TxDone == mode = "txn" /\ tx.pc = "done"

\* Step i of the transaction is the (i+1)-th _execute call, after BEGIN.
StepOk(i) == \E k \in SentOf(i + 1) : sent[k].ok
StepRefused(i) == SentOf(i + 1) # {} /\ \A k \in SentOf(i + 1) : ~sent[k].ok
AllStepsOk == \A i \in 1..Len(tx.queries) : StepOk(i)
FirstFailing(k) == StepRefused(k) /\ \A i \in 1..(k - 1) : StepOk(i)

\* The store answered a COMMIT with a 200.
CommitOk == \E k \in DOMAIN sent : sent[k].query = "COMMIT" /\ sent[k].ok

\* C1: a transaction whose first failing step is step k returns a failure
\* envelope, issues ROLLBACK exactly once and issues no step after step k.
\* (Stated for max_retries >= 1, where every marker call reaches the store.)
C1_RollbackExactlyOnce ==
    \A k \in 1..Len(tx.queries) :
        (TxDone /\ max_retries >= 1 /\ FirstFailing(k)) =>
            /\ ~tx.ret.success
            /\ CountCalls("ROLLBACK") = 1
            /\ Len(calls) = 1 + k + 1

\* C2: execute_transaction returns success only if every step returned a
\* success envelope and the COMMIT marker returned a success envelope.
\* (Stated for max_retries >= 1, where the COMMIT call reaches the store.)
C2_SuccessOnlyIfCommitted ==
    (TxDone /\ max_retries >= 1 /\ tx.ret.success) => (AllStepsOk /\ CommitOk)

\* C3: when every step succeeds, the calls are BEGIN, each step once in list
\* order, COMMIT; no ROLLBACK is issued; each step reaches the store once; and
\* the result is a success whose data lists the step results in input order.
C3_AllStepsSucceed ==
    (TxDone /\ AllStepsOk) =>
        /\ CallQueries = <<"BEGIN">> \o tx.queries \o <<"COMMIT">>
        /\ CountCalls("BEGIN") = 1
        /\ CountCalls("COMMIT") = 1
        /\ CountCalls("ROLLBACK") = 0
        /\ \A i \in 1..Len(tx.queries) : Cardinality(SentOf(i + 1)) = 1
        /\ tx.ret.success
        /\ Len(tx.ret.data) = Len(tx.queries)
        /\ \A i \in 1..Len(tx.queries) :
               /\ tx.ret.data[i].success
               /\ tx.ret.data[i].data = Rows(tx.queries[i])

C3_Witness ==
    /\ TxDone /\ AllStepsOk /\ tx.ret.success
    /\ Len(tx.queries) = 2 /\ tx.queries[1] # tx.queries[2]

\* C4: inside a transaction every step query reaches the store at most once,
\* and step i+1 reaches it only after step i came back with a success.
C4_StepsOnceAndInOrder ==
    mode = "txn" =>
        \A c \in DOMAIN calls :
            calls[c].operation_type = "query" =>
                /\ Cardinality(SentOf(c)) <= 1
                /\ \A j \in SentOf(c) :
                       c > 2 => \E k \in SentOf(c - 1) : k < j /\ sent[k].ok

C4_Witness ==
    /\ TxDone /\ max_retries >= 2 /\ Len(tx.queries) = 2
    /\ StepOk(1) /\ StepRefused(2)

\* C5: with retry enabled, a call whose operation fails k < N times and then
\* succeeds returns a success with attempts = k+1 after exactly k+1 remote
\* invocations; and it does not give up while fewer than N attempts failed.
C5_SucceedsAfterKFailures ==
    (mode = "exec" /\ ex.retry_on_error) =>
        /\ (sent # <<>> /\ sent[Len(sent)].ok) =>
               /\ \A j \in 1..(Len(sent) - 1) : ~sent[j].ok
               /\ Len(sent) <= max_retries
               /\ ex.pc = "ret"
               /\ ex.ret.success
               /\ ex.ret.metadata.attempts = Len(sent)
        /\ ((\A j \in DOMAIN sent : ~sent[j].ok) /\ Len(sent) < max_retries) =>
               ex.pc = "run"

C5_Witness ==
    /\ mode = "exec" /\ ex.retry_on_error /\ ex.pc = "ret"
    /\ Len(sent) = 3 /\ ~sent[1].ok /\ ~sent[2].ok /\ sent[3].ok

\* The sleeps of a call whose n attempts all failed: 2^i after the i-th
\* failure, for i = 1..n-1.
ExpectedSleeps(n) == [i \in 1..(n - 1) |-> [seconds |-> 2 ^ i, after |-> i]]

C6_Exhausted ==
    (/\ mode = "exec" /\ ex.retry_on_error /\ max_retries >= 1
     /\ ex.pc = "ret" /\ \A j \in DOMAIN sent : ~sent[j].ok) =>
        /\ Len(sent) = max_retries
        /\ sleeps = ExpectedSleeps(max_retries)
        /\ ~ex.ret.success
        /\ ex.ret.metadata.attempts = max_retries
        /\ ex.ret.error = RaisedError(last_resp)

\* C6: with retry enabled and max_retries = N >= 1, a call whose operation
\* fails every time makes exactly N remote invocations, sleeps 2^i after the
\* i-th failure for i < N and not after the N-th, and returns a failure with
\* attempts = N and the last error; every call returns.
C6_BoundedRetry == [] C6_Exhausted /\ ((ex.pc = "run") ~> (ex.pc = "ret"))

C6_Witness ==
    /\ mode = "exec" /\ ex.retry_on_error /\ max_retries = 3
    /\ ex.pc = "ret" /\ ~ex.ret.success
    /\ Len(sent) = 3 /\ Len(sleeps) = 2
    /\ last_resp = "r500"

\* C7: with retry_on_error = false a call makes exactly one remote invocation
\* and never sleeps, whatever max_retries is; a failure has attempts = 1.
C7_NoRetryWhenDisabled ==
    (mode = "exec" /\ ~ex.retry_on_error) =>
        /\ sleeps = <<>>
        /\ Len(sent) <= 1
        /\ ex.pc = "ret" =>
               /\ Len(sent) = 1
               /\ ~ex.ret.success => ex.ret.metadata.attempts = 1

C7_Witness ==
    /\ mode = "exec" /\ ~ex.retry_on_error /\ ex.pc = "ret"
    /\ ~ex.ret.success /\ max_retries = 3

\* C8: a 4xx response is not retried: once a call has received a 4xx it makes
\* no further remote invocation.
C8_PermanentNotRetried ==
    [][(mode \in {"exec", "txn"} /\ ex.pc = "run"
        /\ ex.last_error = "Database error: 400") => sent' = sent]_vars

\* ----------------------------------------------- ORBITProcessor: properties

\* The run is in Phase 3, at work on the images of the order it claimed.
ProcessingImages(r) == runs[r].pc \in {"sign", "store"}

\* C9: of the runs that attempt to claim the order, at most one goes on to
\* process the order's images.
C9_ExclusiveClaim ==
    \A r1, r2 \in Runs :
        (ProcessingImages(r1) /\ ProcessingImages(r2)) => r1 = r2

\* C10: no step moves an order that is completed or failed back to
\* processing or pending.
C10_StageNeverReverts ==
    [][stage[OrderId] \in {"completed", "failed"} =>
           stage'[OrderId] \notin {"processing", "pending"}]_vars

\* C11: when processing of a claimed order fails, the run marks the order
\* failed: once every run has ended, an order that a run claimed is completed
\* or failed, never left in processing.
C11_NeverLeftProcessing ==
    (/\ \A r \in Runs : runs[r].pc \in {"idle", "done"}
     /\ \E r \in Runs : runs[r].claimed) =>
        stage[OrderId] \in {"completed", "failed"}

\* ----------------------------------------------------- envelopes: properties

\* The error of an envelope is a non-empty string.
HasError(r) == r.error # None /\ r.error # ""

\* C12: every envelope a tool operation returns has success = false exactly
\* when its error is a non-empty string.
C12_FailureIffError ==
    /\ (mode \in {"exec", "txn"} /\ ex.pc = "ret") =>
           (~ex.ret.success <=> HasError(ex.ret))
    /\ TxDone => (~tx.ret.success <=> HasError(tx.ret))

\* --------------------------------------------------- ORBITAgent: properties

\* health_check has returned to its caller.
HealthDone == wf.caller = "health_check" /\ wf.pc = "done"

\* The reduction ran: every component has a recorded status.
Reduced(h) == \A c \in Components : h.components[c] # "unset"

\* C13: whenever health_check reduces the component statuses, the aggregate
\* is 'healthy' when every component is healthy, 'unhealthy' when none is,
\* and 'degraded' otherwise, for every combination of statuses.
C13_AggregateHealth ==
    (HealthDone /\ Reduced(wf.health)) =>
        LET c == wf.health.components
            all == \A n \in Components : c[n] = "healthy"
            none == \A n \in Components : c[n] # "healthy"
        IN /\ all => wf.health.overall = "healthy"
           /\ none => wf.health.overall = "unhealthy"
           /\ (~all /\ ~none) => wf.health.overall = "degraded"

\* A health check reduced {database: healthy, storage: unhealthy, ...}.
C13_Witness ==
    /\ HealthDone
    /\ Reduced(wf.health)
    /\ wf.health.components["database"] = "healthy"
    /\ wf.health.components["storage"] = "unhealthy"
    /\ wf.health.overall = "degraded"

\* C14: when exactly one probe of health_check raises, that component alone
\* is recorded unhealthy, with the fault message in details, and every other
\* component is still checked and recorded.
C14_RaisingProbeIsolated ==
    (HealthDone /\ Cardinality(wf.raised) = 1) =>
        \A c \in Components :
            IF c \in wf.raised
            THEN /\ wf.health.components[c] = "unhealthy"
                 /\ wf.health.details[c] # None
            ELSE wf.health.components[c] # "unset"

\* execute_workflow has returned.
WorkflowDone == wf.caller = "execute_workflow" /\ wf.pc = "done"

\* The steps of the run so far include this one.
Did(step) == \E k \in DOMAIN wf.log : wf.log[k] = step

\* C15: when the health check's aggregate is 'unhealthy' execute_workflow
\* returns success=false without the pending-count query, without a todo and
\* without the agent; when it is 'healthy' or 'degraded' the run goes on to
\* the pending-count query.
C15_HealthGate ==
    /\ (wf.caller = "execute_workflow" /\ wf.gate = "unhealthy") =>
           /\ wf.pc = "done"
           /\ ~wf.ret.success
           /\ ~Did("count_pending")
           /\ ~Did("add_todo")
           /\ ~Did("agent_run")
           /\ tracker.todos = <<>>
    /\ (wf.caller = "execute_workflow" /\ wf.gate \in {"healthy", "degraded"}) =>
           wf.pc = "c_count" \/ Did("count_pending")

\* The gate refused a system none of whose components was healthy.
C15_Witness ==
    /\ WorkflowDone
    /\ wf.gate = "unhealthy"
    /\ wf.raised = {"ai_analysis", "metadata_embed"}
    /\ ~wf.ret.success

\* prepare_workflow_context has returned its context to execute_workflow.
ContextBuilt ==
    /\ wf.caller = "execute_workflow"
    /\ Did("count_pending")
    /\ wf.pc \in {"agent", "done"}

\* C16: when the built context has pending_orders_count = 0, execute_workflow
\* returns success=true with the 'no work' message, and neither invokes the
\* agent nor adds a todo.
C16_NoWork ==
    (ContextBuilt /\ agent.context.pending_orders_count = 0) =>
        /\ wf.pc = "done"
        /\ wf.ret.success
        /\ wf.ret.message = "No pending orders to process"
        /\ ~Did("agent_run")
        /\ ~Did("add_todo")
        /\ tracker.todos = <<>>

\* The count query succeeded with zero pending orders and the run returned.
C16_Witness ==
    /\ WorkflowDone
    /\ ContextBuilt
    /\ agent.context.pending_orders_count = 0
    /\ agent.context.error_message = None
    /\ wf.ret.success

\* C17: when the agent run times out, execute_workflow returns success=false
\* with the timeout error, nothing follows the agent run (no result is
\* processed, no tool is called), and the returned stats are finalized with
\* the counters as they stood.
C17_Timeout ==
    (wf.caller = "execute_workflow" /\ wf.agent_outcome = "timeout") =>
        /\ wf.pc = "done"
        /\ ~wf.ret.success
        /\ wf.ret.error = "Workflow timed out"
        /\ wf.log[Len(wf.log)] = "agent_run"
        /\ tracker.workflow_stats = NewTracker.workflow_stats
        /\ wf.ret.stats.ended_at # None
        /\ wf.ret.stats.orders_processed = 0
        /\ wf.ret.stats.images_processed = 0
        /\ wf.ret.stats = StatsToDict(agent.stats)

\* A run timed out in the agent.
C17_Witness ==
    /\ WorkflowDone
    /\ wf.agent_outcome = "timeout"

\* C18: every return path of execute_workflow has set ended_at before the
\* result is returned.
C18_AlwaysFinalized ==
    WorkflowDone =>
        /\ agent.stats.ended_at # None
        /\ wf.ret.stats.ended_at # None

\* C19: every execute_workflow result with success=false carries an error
\* string, the stats and the context, with errors_encountered >= 1; and every
\* fault met by the run (a refused gate, a timeout, a raise in the agent)
\* ends in such a result.
C19_FailureResult ==
    /\ (WorkflowDone /\ ~wf.ret.success) =>
           /\ wf.ret.error # None
           /\ wf.ret.error # ""
           /\ wf.ret.stats = StatsToDict(agent.stats)
           /\ wf.ret.context = agent.context
           /\ wf.ret.stats.errors_encountered >= 1
    /\ (/\ wf.caller = "execute_workflow"
        /\ \/ wf.gate = "unhealthy"
           \/ wf.agent_outcome \in {"timeout", "raise"}) =>
           (wf.pc = "done" /\ ~wf.ret.success)

\* The agent raised and the run returned its failure result.
C19_Witness ==
    /\ WorkflowDone
    /\ wf.agent_outcome = "raise"
    /\ ~wf.ret.success

\* The database calls of a result whose arguments are this statement.
CallsOf(result, sql) ==
    {k \in DOMAIN result.tool_calls :
        /\ result.tool_calls[k].tool_name = "database_query"
        /\ result.tool_calls[k].arguments = sql}

ToolCall(sql) ==
    [tool_name |-> "database_query", arguments |-> sql, success |-> TRUE]

\* C20: after a successful run whose agent claimed one order, completed its
\* two images and completed the order, all calls succeeding, the stats are
\* orders_processed = 1, images_processed = 2, errors_encountered = 0 and
\* success_rate = 100; and in general orders_processed is the number of
\* orders completed.
C20_OneOrderTwoImages ==
    (wf.pc = "done" /\ wf.agent_outcome = "result") =>
        LET result == wf.ret.agent_result IN
        /\ result.tool_calls = <<ToolCall(ClaimOrder), ToolCall(CompleteImage),
                                 ToolCall(CompleteImage),
                                 ToolCall(CompleteOrderSql)>> =>
               /\ wf.ret.stats.orders_processed = 1
               /\ wf.ret.stats.images_processed = 2
               /\ wf.ret.stats.errors_encountered = 0
               /\ wf.ret.stats.success_rate_hundredths = 100 * 100
        /\ wf.ret.stats.orders_processed =
               Cardinality(CallsOf(result, CompleteOrderSql))

\* C21: update_completion derives the metrics only when ended_at is set, and
\* then success_rate = (total_ops - errors) / total_ops * 100 with
\* total_ops = orders_processed + images_processed; success_rate is 0 when
\* total_ops = 0 (and when ended_at is unset).
C21_SuccessRate ==
    (wf.caller = "update_completion" /\ wf.pc = "done") =>
        LET st == agent.stats
            total_ops == st.orders_processed + st.images_processed
            rate == st.success_rate
        IN IF st.ended_at # None /\ total_ops > 0
           THEN rate[1] * total_ops =
                    (total_ops - st.errors_encountered) * 100 * rate[2]
           ELSE rate[1] = 0

\* update_completion ran on ended stats with three operations, one failed.
C21_Witness ==
    /\ wf.caller = "update_completion"
    /\ wf.pc = "done"
    /\ agent.stats.ended_at # None
    /\ agent.stats.orders_processed = 1
    /\ agent.stats.images_processed = 2
    /\ agent.stats.errors_encountered = 1
    /\ agent.stats.success_rate = <<200, 3>>

\* The steps of a whole run under this configuration, in the code's order.
FullOrder ==
    <<"health:database", "health:storage">>
    \o (IF NeedAiProbe THEN <<"health:ai_analysis">> ELSE <<>>)
    \o (IF NeedMetadataProbe THEN <<"health:metadata_embed">> ELSE <<>>)
    \o <<"count_pending", "storage_probe", "add_todo", "agent_run",
         "process_result", "update_stats">>

\* C23: within one execute_workflow run the steps happen strictly in the
\* order health check, pending-count query, storage probe, add todo, agent
\* run, result processing, stats finalization: the steps taken are always a
\* prefix of that order, so no step starts before its predecessor returned,
\* and the agent runs at most once; the stats are finalized only at the end.
C23_StepOrder ==
    wf.caller = "execute_workflow" =>
        /\ Len(wf.log) <= Len(FullOrder)
        /\ \A k \in DOMAIN wf.log : wf.log[k] = FullOrder[k]
        /\ Cardinality({k \in DOMAIN wf.log : wf.log[k] = "agent_run"}) <= 1
        /\ agent.stats.ended_at # None => wf.pc = "done"

\* A run went through every step.
C23_Witness ==
    /\ WorkflowDone
    /\ wf.log = FullOrder
    /\ NeedAiProbe
    /\ NeedMetadataProbe
    /\ agent.stats.ended_at # None

\* The stats a run returns when only its own writes went into them.
OwnStats(w) ==
    IF w.agent_outcome = "result"
    THEN UpdateCompletion(
             [ProcessAgentResult(NewStats, w.ret.agent_result)
                 EXCEPT !.ended_at = "set"])
    ELSE IF w.ret.success THEN NewStats
    ELSE FinalizeFailure(NewStats)

\* C22: of two overlapping execute_workflow calls on one agent, each returns
\* stats and a context that hold only its own writes: the stats are those of
\* its own outcome from fresh, the context is the one it built.  (Stated for
\* runs none of whose probes raised.)
C22_RunsIsolated ==
    \A w \in {wf, other} :
        (/\ w.caller = "execute_workflow"
         /\ w.pc = "done"
         /\ wf.raised = {}
         /\ other.raised = {}) =>
            /\ w.ret.stats = StatsToDict(OwnStats(w))
            /\ (\E k \in DOMAIN w.log : w.log[k] = "count_pending") =>
                   w.ret.context = w.built

\* ----------------------------------------- ProgressTrackerTool: properties

\* C24: after any calls since construction or the last reset, todo ids are
\* unique, strictly increasing in list order starting at 1, and
\* next_id = len(todos) + 1.
C24_TodoIds ==
    LET todos == tracker.todos IN
    /\ todos # <<>> => todos[1].id = 1
    /\ \A j, k \in DOMAIN todos : j < k => todos[j].id < todos[k].id
    /\ tracker.next_id = Len(todos) + 1

\* Three todos were added and one of them updated.
C24_Witness ==
    /\ Len(tracker.todos) = 3
    /\ ledger.op = "update_todo"
    /\ ledger.ret.success

\* The position of the todo carrying this id, if any.
Carries(t, todo_id) == {k \in DOMAIN t.todos : t.todos[k].id = todo_id}

\* C25: update_todo with an id no todo carries returns a failure envelope
\* and leaves todos, next_id and workflow_stats unchanged; with an existing
\* id it returns success and changes only that todo's status.
C25_UpdateTodo ==
    [][ledger'.op = "update_todo" =>
          LET todo_id == ledger'.ret.todo_id IN
          IF Carries(tracker, todo_id) = {}
          THEN /\ ~ledger'.ret.success
               /\ ledger'.ret.error = "Todo not found"
               /\ tracker' = tracker
          ELSE /\ ledger'.ret.success
               /\ tracker'.next_id = tracker.next_id
               /\ tracker'.workflow_stats = tracker.workflow_stats
               /\ Len(tracker'.todos) = Len(tracker.todos)
               /\ \A k \in DOMAIN tracker.todos :
                      tracker'.todos[k] =
                          IF k \in Carries(tracker, todo_id)
                          THEN [tracker.todos[k] EXCEPT
                                   !.status = ledger'.ret.todo_status]
                          ELSE tracker.todos[k]]_vars

\* update_todo did not find its id among two todos, one of them completed.
C25_Witness ==
    /\ ledger.op = "update_todo"
    /\ ~ledger.ret.success
    /\ Len(tracker.todos) = 2
    /\ StatusCount(tracker, "completed") = 1

\* C26: no operation other than reset removes a todo or changes the id or
\* the content of an existing one.
C26_OnlyResetRemoves ==
    [][ledger'.op # "reset" =>
          /\ Len(tracker'.todos) >= Len(tracker.todos)
          /\ \A k \in DOMAIN tracker.todos :
                 /\ tracker'.todos[k].id = tracker.todos[k].id
                 /\ tracker'.todos[k].content = tracker.todos[k].content]_vars

\* A full ledger went through an update_todo call.
C26_Witness ==
    /\ ledger.op = "update_todo"
    /\ ledger.ret.success
    /\ ledger.ret.todo_status = "in_progress"
    /\ Len(tracker.todos) = MaxTodos

\* C27 as stated: get_progress returns percent_complete =
\* completed / total_todos * 100 exactly, and 0 when there are no todos.
C27_PercentExact ==
    ledger.op = "get_progress" =>
        LET total == Len(tracker.todos) IN
        IF total > 0
        THEN ledger.ret.percent_complete_hundredths * total =
                 StatusCount(tracker, "completed") * 100 * 100
        ELSE ledger.ret.percent_complete_hundredths = 0

\* C27, amended: get_progress returns completed / total_todos * 100 rounded
\* to two decimals (the nearest hundredth), and 0 when there are no todos.
C27_PercentRounded ==
    ledger.op = "get_progress" =>
        LET total == Len(tracker.todos)
            h == ledger.ret.percent_complete_hundredths
            exact == StatusCount(tracker, "completed") * 100 * 100
            diff == IF h * total >= exact THEN h * total - exact
                    ELSE exact - h * total
        IN /\ ledger.ret.total_todos = total
           /\ IF total > 0 THEN 2 * diff <= total ELSE h = 0

\* get_progress on three todos, one completed: 33.33.
C27_Witness ==
    /\ ledger.op = "get_progress"
    /\ Len(tracker.todos) = 3
    /\ StatusCount(tracker, "completed") = 1
    /\ ledger.ret.percent_complete_hundredths = 3333

\* C28: from any reachable ledger state, reset followed by get_progress
\* returns total_todos = 0 and percent_complete = 0 with every workflow
\* counter 0 and started_at unset; reset clears todos and counters in one
\* step.
C28_ResetThenProgress ==
    /\ LET p == GetProgress(Reset(tracker)) IN
       /\ p.total_todos = 0
       /\ p.percent_complete_hundredths = 0
       /\ p.workflow_stats.orders_processed = 0
       /\ p.workflow_stats.images_processed = 0
       /\ p.workflow_stats.errors = 0
       /\ p.workflow_stats.started_at = None
    /\ ledger.op = "reset" =>
           /\ tracker.todos = <<>>
           /\ tracker.next_id = 1
           /\ tracker.workflow_stats.orders_processed = 0
           /\ tracker.workflow_stats.started_at = None
    /\ (ledger.op = "get_progress" /\ ledger.cleared > 0) =>
           /\ ledger.ret.total_todos = 0
           /\ ledger.ret.percent_complete_hundredths = 0
           /\ ledger.ret.workflow_stats.orders_processed = 0
           /\ ledger.ret.workflow_stats.started_at = None

\* get_progress right after a reset that removed two todos.
C28_Witness ==
    /\ ledger.op = "get_progress"
    /\ ledger.cleared = 2
    /\ ledger.ret.total_todos = 0

\* C29: update_stats merges the given fields into the counters and, when
\* started_at was unset, leaves it set, whichever fields the update holds.
\* (Stated for updates that hold a counter.)
C29_StartedAtSet ==
    (ledger.op = "update_stats" /\ tracker.workflow_stats.orders_processed > 0) =>
        /\ ledger.ret.success
        /\ ledger.ret.workflow_stats = tracker.workflow_stats
        /\ tracker.workflow_stats.started_at # None

\* C30: each mutating ledger operation takes effect as one step whatever
\* the interleaving of the callers sharing the tracker: no two add_todo
\* calls were given the same id, and every entry added is in the ledger.
C30_AtomicOperations ==
    LET issued == ledger.issued IN
    /\ \A i, j \in DOMAIN issued :
           i # j => issued[i].id # issued[j].id
    /\ \A i \in DOMAIN issued : Carries(tracker, issued[i].id) # {}
    /\ Len(tracker.todos) = Len(issued)
    /\ ledger.op = "add_todo" =>
           /\ ledger.ret.todo_id = issued[Len(issued)].id
           /\ ledger.ret.total_todos = Len(tracker.todos)

\* Two callers added todos in turn.
C30_Witness ==
    /\ Len(ledger.issued) = 3
    /\ ledger.issued[1].caller = "caller1"
    /\ ledger.issued[2].caller = "caller2"
    /\ ledger.issued[3].caller = "caller1"


\* ------------------------------------------- DatabaseTool: further properties

\* C34: for every max_retries >= 0, an _execute call that has returned made
\* at least one remote invocation: no envelope is returned without an attempt.
C34_AtLeastOneAttempt ==
    (mode = "exec" /\ ex.pc = "ret") => SentOf(1) # {}

\* C35: execute_transaction executes no step query unless BEGIN returned
\* success: a step reaches the store only after BEGIN got a 200.
C35_NoStepWithoutBegin ==
    (/\ mode = "txn"
     /\ max_retries >= 1
     /\ \E k \in 1..Len(sent) : calls[sent[k].call].operation_type = "query") =>
        \E k \in SentOf(1) : sent[k].ok

\* ----------------------------------------- ORBITProcessor: further properties

\* C40: process_order returns True exactly when the order's update to
\* 'completed' succeeded: the run that ends with its completion request, on an
\* order not yet completed, returns True if and only if the request set the
\* stage to 'completed', for any number of images.
C40_TrueIffCompleted ==
    [][\A r \in Runs :
           (/\ runs[r].pc = "complete"
            /\ runs'[r].pc = "done"
            /\ stage[OrderId] # "completed") =>
               (runs'[r].ret = "True" <=> stage'[OrderId] = "completed")]_vars

\* --------------------------------------------- ORBITAgent: further properties

\* C38: after any run the success_rate lies between 0 and 100 inclusive,
\* for every combination of counters the run can produce.
C38_RateInRange ==
    WorkflowDone =>
        LET rate == agent.stats.success_rate
        IN rate[1] >= 0 /\ rate[1] <= 100 * rate[2]

\* C36: execute_workflow returns 'No pending orders to process' only when
\* the count query returned a success envelope with count 0; after a failed
\* count query the run returns a failure.  (Stated for count queries that
\* return an envelope, as DatabaseTool._execute always does.)
C36_NoWorkOnlyOnZeroCount ==
    (WorkflowDone /\ wf.count_outcome # "raise") =>
        /\ wf.ret.message = "No pending orders to process" =>
               wf.count_outcome = "success"
        /\ wf.count_outcome = "failure" => ~wf.ret.success

\* Both tool probes of the health check returned failure envelopes.
BothToolProbesFailed(h) ==
    /\ h.components["database"] = "unhealthy"
    /\ h.components["storage"] = "unhealthy"

\* C37, as stated: health_check yields 'unhealthy' only when an exception
\* escapes the probe sequence, into its outer except, which keeps the error.
C37_UnhealthyOnlyOnEscape ==
    (HealthDone /\ wf.health.overall = "unhealthy") => wf.health.error # None

\* C37, amended: health_check yields 'unhealthy' only when some probe raised
\* (escaping from the database or storage probe, or caught from both the
\* ai_analysis and the metadata_embed probe); when no probe raises, failure
\* envelopes from both the database and the storage probe yield 'degraded',
\* which the gate of execute_workflow lets pass.
C37_UnhealthyOnlyOnRaise ==
    HealthDone =>
        /\ wf.health.overall = "unhealthy" => wf.raised # {}
        /\ (BothToolProbesFailed(wf.health) /\ wf.raised = {}) =>
               /\ wf.health.overall = "degraded"
               /\ ~GateFails(wf.health.overall)

\* A health check whose database and storage probes both returned failures,
\* with no probe raising, came out degraded.
C37_Witness ==
    /\ HealthDone
    /\ BothToolProbesFailed(wf.health)
    /\ wf.raised = {}
    /\ wf.health.overall = "degraded"

\* ------------------------------------ ProgressTrackerTool: further properties

\* C39: in every reachable ledger state the counts get_progress returns add
\* up: completed + in_progress + pending = total_todos.
C39_CountsAddUp ==
    ledger.op = "get_progress" =>
        ledger.ret.completed + ledger.ret.in_progress + ledger.ret.pending
            = ledger.ret.total_todos

\* ------------------------------------------- WORKFLOW_PHASES: properties

\* C31: the phase table is a singly linked chain: every next_phase names a
\* defined phase or is None, exactly one of the five phases (continuation)
\* has next_phase None, and following next_phase from 'initialization'
\* visits each of the five phases exactly once.
C31_PhaseChain ==
    /\ Cardinality(Phases) = 5
    /\ \A p \in Phases : NextPhase(p) \in Phases \cup {None}
    /\ {p \in Phases : NextPhase(p) = None} = {"continuation"}
    /\ engine.start = "initialization" =>
           /\ \A i, j \in DOMAIN engine.visited :
                  engine.visited[i] = engine.visited[j] => i = j
           /\ engine.phase = None =>
                  {engine.visited[i] : i \in DOMAIN engine.visited} = Phases

\* The walk from initialization has reached the end of the chain.
C31_Witness ==
    /\ engine.start = "initialization"
    /\ engine.phase = None
    /\ engine.visited = PhaseNames

\* C32: from the continuation phase the workflow goes back to the discovery
\* phase when the re-evaluated pending count is greater than 0, and to the
\* terminal state otherwise.
C32_ContinuationLoops ==
    [][(engine.phase = "continuation" /\ engine'.phase # engine.phase) =>
           IF engine'.pending > 0
           THEN engine'.phase = "order_discovery"
           ELSE engine'.phase = None]_vars

\* C33: a run can be resumed at any phase: when the agent's context has
\* current_phase = p as execute_workflow is called, the brief the run gives
\* the agent marks p as the current phase and starts the workflow at p.
C33_ResumeAtCurrentPhase ==
    (wf.caller = "execute_workflow" /\ Did("add_todo")) =>
        /\ wf.prompt.current = wf.entry_phase
        /\ wf.prompt.start = wf.entry_phase

====
